---------------------------- MODULE Spec2Model ----------------------------
(***************************************************************************)
(* Model of the live Oromo <-> Amharic translation session of App.tsx.     *)
(*                                                                         *)
(* The repository holds three variants of the App component:               *)
(*   "A1"  src/App.tsx, lines 1-228                                        *)
(*   "A2"  src/App.tsx, lines 231-518                                      *)
(*   "P0"  src/unnamed/part_000                                            *)
(* The variable `variant` says which of them is running; it never changes. *)
(*                                                                         *)
(* Text is a sequence of Unicode code points.  Times are integers on the   *)
(* output AudioContext's clock.                                            *)
(***************************************************************************)
EXTENDS Integers, Sequences, FiniteSets, TLC

(***************************************************************************)
(* Bounds of the model                                                     *)
(***************************************************************************)
\* connect() invocations in one behaviour
MaxConns == 2
\* inbound audio chunks in one behaviour
MaxChunks == 2
\* last tick of the output clock
MaxTime == 2
\* outbound frames in one behaviour
MaxFrames == 2
\* longest transcript buffer the messages may build
MaxBuf == 2
\* history entries created in one behaviour (transcript specifications)
MaxEntries == 2
\* history entries created in one behaviour (whole-session specification)
MaxTurns == 1
\* history entries created in one behaviour (history specification)
MaxHistEntries == 52

(***************************************************************************)
(* Program constants                                                       *)
(***************************************************************************)
\* p.slice(-49): the entries kept before the new one is appended
SliceKeep == 49

Variants == {"A1", "A2", "P0"}

DISCONNECTED == "DISCONNECTED"
CONNECTING == "CONNECTING"
CONNECTED == "CONNECTED"
ERROR == "ERROR"
ConnectionStatus == {DISCONNECTED, CONNECTING, CONNECTED, ERROR}

VARIABLES
    variant,                \* which App component runs
    status,                 \* useState<ConnectionStatus>
    transcriptions,         \* useState<TranscriptionEntry[]>
    isMuted,                \* useState(false)
    errorMsg,               \* useState<string | null>: "null" or the message
    nextStartTimeRef,       \* the playback cursor
    sourcesRef,             \* Set<AudioBufferSourceNode>: ids of the handles
    sessionRef,             \* 0 (null) or the connection whose session it holds
    micStreamRef,           \* 0 (null) or the connection whose stream it holds
    currentInputTransRef,   \* transcript buffer, user direction
    currentOutputTransRef,  \* transcript buffer, model direction
    currentTime,            \* outputAudioContextRef.current.currentTime
    conns,                  \* the connect() invocations and their streams
    decodes,                \* onmessage invocations suspended in decodeAudioData
    played,                 \* every source.start() so far, in call order
    sent,                   \* every sendRealtimeInput() so far, in call order
    nextId,                 \* identity given to the next TranscriptionEntry
    nChunks,                \* inbound audio chunks received so far
    nBlocks,                \* microphone blocks captured so far
    deltaLogIn,             \* user deltas received since the last turnComplete
    deltaLogOut             \* model deltas received since the last turnComplete

vars == << variant, status, transcriptions, isMuted, errorMsg, nextStartTimeRef,
           sourcesRef, sessionRef, micStreamRef, currentInputTransRef,
           currentOutputTransRef, currentTime, conns, decodes, played, sent,
           nextId, nChunks, nBlocks, deltaLogIn, deltaLogOut >>

Max(a, b) == IF a >= b THEN a ELSE b

(***************************************************************************)
(* Text                                                                    *)
(***************************************************************************)
\* String.prototype.trim's white space and line terminators
IsWhiteSpace(c) ==
    \/ c \in 9..13
    \/ c \in {32, 160, 5760, 8232, 8233, 8239, 8287, 12288, 65279}
    \/ c \in 8192..8202

RECURSIVE TrimStart(_)
TrimStart(s) ==
    IF s = << >> THEN << >>
    ELSE IF IsWhiteSpace(Head(s)) THEN TrimStart(Tail(s))
    ELSE s

RECURSIVE TrimEnd(_)
TrimEnd(s) ==
    IF s = << >> THEN << >>
    ELSE IF IsWhiteSpace(s[Len(s)]) THEN TrimEnd(SubSeq(s, 1, Len(s) - 1))
    ELSE s

\* a trim that removes only leading white space (String.prototype.trimStart)
TrimStartOnly(s) == TrimStart(s)

\* a trim that removes only trailing white space (String.prototype.trimEnd)
TrimEndOnly(s) == TrimEnd(s)

\* currentInputTransRef.current.trim()
Trim(s) == TrimEnd(TrimStart(s))

\* /[\u1200-\u137F]/
EthiopicChars == 4608..4991

IsEthiopic(c) == c \in EthiopicChars

\* /[a-zA-Z]/
LatinChars == (65..90) \cup (97..122)

\* (text.match(re) || []).length
CountMatches(s, chars) == Cardinality({i \in 1..Len(s) : s[i] \in chars})

\* detectLanguage of the running variant
detectLanguage(text) ==
    IF variant = "A2"
    THEN IF \E i \in 1..Len(text) : IsEthiopic(text[i])
         THEN "Amharic" ELSE "Afaan Oromoo"
    ELSE IF CountMatches(text, EthiopicChars) > CountMatches(text, LatinChars)
         THEN "Amharic" ELSE "Afaan Oromoo"

(***************************************************************************)
(* History Store                                                           *)
(***************************************************************************)
\* p.slice(-k)
SliceLast(p, k) ==
    IF Len(p) <= k THEN p ELSE SubSeq(p, Len(p) - k + 1, Len(p))

\* the updater given to setTranscriptions
AppendEntry(p, e) ==
    IF variant = "A2" THEN Append(p, e)
    ELSE Append(SliceLast(p, SliceKeep), e)

\* the entry built at a turn boundary; its identity is modelled as the
\* number of entries created before it
NewEntry(id, sender, text) ==
    [id |-> id, sender |-> sender, text |-> text,
     language |-> detectLanguage(text)]

\* a buffer that keeps only the latest delta instead of accumulating
AppendDeltaOverwrite(buf, delta) == IF delta = << >> THEN buf ELSE delta

\* currentInputTransRef.current += message.serverContent.inputTranscription.text
AppendDelta(buf, delta) == buf \o delta

\* the turnComplete branch of onmessage, on the buffers as they are after
\* the deltas of the message were appended
FinalizeTurn(bufIn, bufOut, hist, id) ==
    LET input == Trim(bufIn)
        output == Trim(bufOut)
        h1 == IF input # << >>
              THEN AppendEntry(hist, NewEntry(id, "user", input)) ELSE hist
        id1 == IF input # << >> THEN id + 1 ELSE id
        h2 == IF output # << >>
              THEN AppendEntry(h1, NewEntry(id1, "model", output)) ELSE h1
        id2 == IF output # << >> THEN id1 + 1 ELSE id1
    IN  [bufIn |-> IF input # << >> THEN << >> ELSE bufIn,
         bufOut |-> IF output # << >> THEN << >> ELSE bufOut,
         hist |-> h2,
         id |-> id2]

(***************************************************************************)
(* Playback Scheduler                                                      *)
(***************************************************************************)
\* a stop() that leaves the source playing
StopOneNot(h, now) == h

\* source.stop() at clock time `now` on the handle h.  A source that has
\* already played to its end has nothing left to stop; whatever stop()
\* raises there is swallowed by the try/catch around it.
StopOne(h, now) ==
    IF h.end <= now THEN h
    ELSE [h EXCEPT !.st = "stopped", !.end = Max(h.start, now)]

\* the handles of `hs` a forEach over the set `srcs` visits before the one
\* at position k
VisitedBefore(srcs, hs, k) == {i \in 1..(k - 1) : hs[i].id \in srcs}

\* stopAllAudio() without the try/catch around source.stop(): the
\* first already finished source ends the forEach and what follows it
StopAllAudioNoCatch(srcs, hs, next, now) ==
    LET done == {i \in DOMAIN hs : hs[i].id \in srcs /\ hs[i].end <= now}
    IN  IF done = {}
        THEN [sources |-> {}, next |-> 0,
              played |-> [i \in DOMAIN hs |->
                            IF hs[i].id \in srcs THEN StopOne(hs[i], now)
                            ELSE hs[i]]]
        ELSE LET k == CHOOSE i \in done : \A j \in done : i <= j
             IN  [sources |-> srcs, next |-> next,
                  played |-> [i \in DOMAIN hs |->
                                IF i \in VisitedBefore(srcs, hs, k)
                                THEN StopOne(hs[i], now) ELSE hs[i]]]

\* stopAllAudio(): what it leaves in sourcesRef, nextStartTimeRef and on
\* the output device
StopAllAudio(srcs, hs, next, now) ==
    [sources |-> {}, next |-> 0,
     played |-> [i \in DOMAIN hs |->
                   IF hs[i].id \in srcs THEN StopOne(hs[i], now) ELSE hs[i]]]

\* source.start(when) at clock time `now`: a start time in the past plays
\* at once
StartSource(d, when, now) ==
    [id |-> d.id, at |-> now, when |-> when, start |-> Max(when, now),
     dur |-> d.dur, end |-> Max(when, now) + d.dur, st |-> "playing",
     flushed |-> d.flushed]

(***************************************************************************)
(* Messages and operations                                                 *)
(***************************************************************************)
NoMsg ==
    [inT |-> << >>, outT |-> << >>, turnComplete |-> FALSE, audio |-> 0,
     interrupted |-> FALSE]

NoConn ==
    [pc |-> "unused", ws |-> "none", mic |-> "none", proc |-> FALSE,
     capMuted |-> FALSE, capStatus |-> DISCONNECTED, timer |-> FALSE,
     retry |-> 0]

ConnIds == 1..MaxConns

Init ==
    /\ variant \in Variants
    /\ status = DISCONNECTED
    /\ transcriptions = << >>
    /\ isMuted = FALSE
    /\ errorMsg = "null"
    /\ nextStartTimeRef = 0
    /\ sourcesRef = {}
    /\ sessionRef = 0
    /\ micStreamRef = 0
    /\ currentInputTransRef = << >>
    /\ currentOutputTransRef = << >>
    /\ currentTime = 0
    /\ conns = [c \in ConnIds |-> NoConn]
    /\ decodes = {}
    /\ played = << >>
    /\ sent = << >>
    /\ nextId = 1
    /\ nChunks = 0
    /\ nBlocks = 0
    /\ deltaLogIn = << >>
    /\ deltaLogOut = << >>

textVars ==
    << transcriptions, currentInputTransRef, currentOutputTransRef, nextId,
       deltaLogIn, deltaLogOut >>

audioVars == << nextStartTimeRef, sourcesRef, decodes, played, nChunks >>

\* session.close() on the session held by sessionRef, the tracks of the
\* microphone stream left running
ReleasedNoMic(cs, sess, micOf) ==
    [c \in ConnIds |->
        [cs[c] EXCEPT
            !.ws = IF c = sess /\ cs[c].ws \in {"opening", "open"}
                   THEN "closing" ELSE @]]

\* session.close() on the session held by sessionRef, and the tracks of the
\* stream held by micStreamRef stopped
Released(cs, sess, micOf) ==
    [c \in ConnIds |->
        [cs[c] EXCEPT
            !.ws = IF c = sess /\ cs[c].ws \in {"opening", "open"}
                   THEN "closing" ELSE @,
            !.mic = IF c = micOf THEN "stopped" ELSE @]]

\* a disconnect() whose last effect on the status is setStatus(ERROR)
TeardownToError(cs, sess, micOf, srcs, hs, next, decs, now) ==
    LET r == StopAllAudio(srcs, hs, next, now)
    IN  [conns |-> Released(cs, sess, micOf), sessionRef |-> 0,
         micStreamRef |-> 0, sourcesRef |-> r.sources,
         nextStartTimeRef |-> r.next, played |-> r.played,
         decodes |-> {[d EXCEPT !.flushed = TRUE] : d \in decs},
         status |-> ERROR]

\* what disconnect() leaves, at clock time `now`, of the state it reads and
\* writes; every pending decode is marked as having been flushed
Teardown(cs, sess, micOf, srcs, hs, next, decs, now) ==
    LET r == StopAllAudio(srcs, hs, next, now)
    IN  [conns |-> Released(cs, sess, micOf), sessionRef |-> 0,
         micStreamRef |-> 0, sourcesRef |-> r.sources,
         nextStartTimeRef |-> r.next, played |-> r.played,
         decodes |-> {[d EXCEPT !.flushed = TRUE] : d \in decs},
         status |-> DISCONNECTED]

\* disconnect(), run on the connections cs
disconnect(cs) ==
    LET t == Teardown(cs, sessionRef, micStreamRef, sourcesRef, played,
                      nextStartTimeRef, decodes, currentTime)
    IN  /\ conns' = t.conns
        /\ sessionRef' = t.sessionRef
        /\ micStreamRef' = t.micStreamRef
        /\ sourcesRef' = t.sourcesRef
        /\ nextStartTimeRef' = t.nextStartTimeRef
        /\ played' = t.played
        /\ decodes' = t.decodes
        /\ status' = t.status

\* the main button while status is not CONNECTED: connect() up to its
\* first await.  The closure keeps the isMuted and status of this render.
Connect(c) ==
    /\ status # CONNECTED
    /\ variant = "A1" => status # CONNECTING
    /\ conns[c].pc = "unused"
    /\ \A b \in ConnIds : b < c => conns[b].pc # "unused"
    /\ conns' = [conns EXCEPT ![c] =
                    [NoConn EXCEPT !.pc = "mic", !.capMuted = isMuted,
                                   !.capStatus = status]]
    /\ status' = CONNECTING
    /\ errorMsg' = "null"
    /\ UNCHANGED << variant, isMuted, sessionRef, micStreamRef, currentTime,
                    sent, nBlocks, textVars, audioVars >>

\* getUserMedia resolves: the stream is kept and ai.live.connect is called
GetUserMediaOk(c) ==
    /\ conns[c].pc = "mic"
    /\ micStreamRef' = c
    /\ conns' = [conns EXCEPT ![c].pc = "await", ![c].mic = "live",
                              ![c].ws = "opening"]
    /\ UNCHANGED << variant, status, isMuted, errorMsg, sessionRef,
                    currentTime, sent, nBlocks, textVars, audioVars >>

\* a catch block of connect() that ends before its call of disconnect()
GetUserMediaFailNoTeardown(c) ==
    /\ conns[c].pc = "mic"
    /\ errorMsg' = "Access denied or service unavailable."
    /\ status' = ERROR
    /\ conns' = [conns EXCEPT ![c].pc = "done"]
    /\ UNCHANGED << variant, isMuted, sessionRef, micStreamRef, currentTime,
                    sent, nBlocks, textVars, audioVars >>

\* getUserMedia rejects: the catch block of connect()
GetUserMediaFail(c) ==
    /\ conns[c].pc = "mic"
    /\ errorMsg' = "Access denied or service unavailable."
    /\ disconnect([conns EXCEPT ![c].pc = "done"])
    /\ UNCHANGED << variant, isMuted, currentTime, sent, nBlocks, nChunks,
                    textVars >>

\* the stream opens: onopen, and then, before any other event, the
\* continuation of `sessionRef.current = await sessionPromise`
OnOpen(c) ==
    /\ conns[c].ws = "opening"
    /\ conns[c].pc = "await"
    /\ status' = CONNECTED
    /\ sessionRef' = c
    /\ conns' = [conns EXCEPT ![c].ws = "open", ![c].proc = TRUE,
                              ![c].pc = "done"]
    /\ UNCHANGED << variant, isMuted, errorMsg, micStreamRef, currentTime,
                    sent, nBlocks, textVars, audioVars >>

\* the stream closes (by the remote end, or after session.close()): onclose
OnClose(c) ==
    /\ conns[c].ws \in {"opening", "open", "closing"}
    /\ disconnect([conns EXCEPT ![c].ws = "closed"])
    /\ UNCHANGED << variant, isMuted, errorMsg, currentTime, sent, nBlocks,
                    nChunks, textVars >>

\* the main button while status is CONNECTED
Disconnect ==
    /\ status = CONNECTED
    /\ disconnect(conns)
    /\ UNCHANGED << variant, isMuted, errorMsg, currentTime, sent, nBlocks,
                    nChunks, textVars >>

\* the mute button, enabled while status is CONNECTED
ToggleMute ==
    /\ status = CONNECTED
    /\ isMuted' = ~isMuted
    /\ UNCHANGED << variant, status, errorMsg, sessionRef, micStreamRef,
                    currentTime, conns, sent, nBlocks, textVars, audioVars >>

\* the clear button
ClearHistory ==
    /\ transcriptions # << >>
    /\ transcriptions' = << >>
    /\ UNCHANGED << variant, status, isMuted, errorMsg, sessionRef,
                    micStreamRef, currentTime, conns, sent, nBlocks,
                    currentInputTransRef, currentOutputTransRef, nextId,
                    deltaLogIn, deltaLogOut, audioVars >>

\* onaudioprocess of the script processor connection c registered in
\* onopen; isMuted is the value its closure captured
AudioProcess(c) ==
    /\ conns[c].proc
    /\ nBlocks < MaxFrames
    /\ nBlocks' = nBlocks + 1
    /\ sent' = IF conns[c].capMuted \/ (variant # "A2" /\ sessionRef = 0)
               THEN sent
               ELSE Append(sent, [conn |-> c, block |-> nBlocks + 1,
                                  muted |-> isMuted, ws |-> conns[c].ws])
    /\ UNCHANGED << variant, status, isMuted, errorMsg, sessionRef,
                    micStreamRef, currentTime, conns, textVars, audioVars >>

\* onerror of the stream of connection c.  conns[c].retry counts the
\* automatic attempts that led to connection c since the last press of the
\* main button.
OnError(c) ==
    /\ conns[c].ws \in {"opening", "open"}
    /\ errorMsg' = "Connection error."
    /\ CASE variant = "A1" ->
              /\ status' = ERROR
              /\ UNCHANGED << sessionRef, micStreamRef, conns, nextStartTimeRef,
                              sourcesRef, decodes, played >>
         [] variant = "A2" ->
              disconnect(conns)
         [] variant = "P0" ->
              /\ status' = ERROR
              /\ conns' = [conns EXCEPT ![c].timer = TRUE]
              /\ UNCHANGED << sessionRef, micStreamRef, nextStartTimeRef,
                              sourcesRef, decodes, played >>
    /\ UNCHANGED << variant, isMuted, currentTime, sent, nBlocks, nChunks,
                    textVars >>

\* the setTimeout callback of onerror (part_000): it reads the status its
\* closure captured and calls the connect() of that same render
RetryTimer(c, n) ==
    /\ conns[c].timer
    /\ conns[n].pc = "unused"
    /\ \A b \in ConnIds : b < n => conns[b].pc # "unused"
    /\ IF conns[c].capStatus # CONNECTED
       THEN /\ conns' = [conns EXCEPT
                            ![c].timer = FALSE,
                            ![n] = [NoConn EXCEPT
                                       !.pc = "mic",
                                       !.capMuted = conns[c].capMuted,
                                       !.capStatus = conns[c].capStatus,
                                       !.retry = conns[c].retry + 1]]
            /\ status' = CONNECTING
            /\ errorMsg' = "null"
       ELSE /\ conns' = [conns EXCEPT ![c].timer = FALSE]
            /\ UNCHANGED << status, errorMsg >>
    /\ UNCHANGED << variant, isMuted, sessionRef, micStreamRef, currentTime,
                    sent, nBlocks, textVars, audioVars >>

\* onmessage for the message m on the stream of connection c, up to its
\* await of decodeAudioData when m carries audio and to its end otherwise.
\* m.audio is the duration the chunk decodes to, 0 when m carries no audio.
\* A suspended handler keeps in cursor0 the cursor it found.
OnMessage(c, m, maxEntries, maxChunks) ==
    LET bufIn == AppendDelta(currentInputTransRef, m.inT)
        bufOut == AppendDelta(currentOutputTransRef, m.outT)
        fin == IF m.turnComplete
               THEN FinalizeTurn(bufIn, bufOut, transcriptions, nextId)
               ELSE [bufIn |-> bufIn, bufOut |-> bufOut,
                     hist |-> transcriptions, id |-> nextId]
        r == StopAllAudio(sourcesRef, played, nextStartTimeRef, currentTime)
    IN  /\ conns[c].ws \in {"open", "closing"}
        /\ Len(currentInputTransRef) + Len(m.inT) <= MaxBuf
        /\ Len(currentOutputTransRef) + Len(m.outT) <= MaxBuf
        /\ m.turnComplete => nextId + 1 <= maxEntries
        /\ m.audio > 0 => nChunks < maxChunks
        /\ currentInputTransRef' = fin.bufIn
        /\ currentOutputTransRef' = fin.bufOut
        /\ transcriptions' = fin.hist
        /\ nextId' = fin.id
        /\ deltaLogIn' = IF m.turnComplete THEN << >> ELSE deltaLogIn \o m.inT
        /\ deltaLogOut' = IF m.turnComplete THEN << >> ELSE deltaLogOut \o m.outT
        /\ IF m.audio > 0
           THEN /\ nextStartTimeRef' = Max(nextStartTimeRef, currentTime)
                /\ decodes' = decodes \cup
                                {[id |-> nChunks + 1, dur |-> m.audio,
                                  intr |-> m.interrupted, flushed |-> FALSE,
                                  cursor0 |-> nextStartTimeRef]}
                /\ nChunks' = nChunks + 1
                /\ UNCHANGED << sourcesRef, played >>
           ELSE IF m.interrupted
           THEN /\ sourcesRef' = r.sources
                /\ nextStartTimeRef' = r.next
                /\ played' = r.played
                /\ decodes' = {[d EXCEPT !.flushed = TRUE] : d \in decodes}
                /\ UNCHANGED nChunks
           ELSE UNCHANGED audioVars
        /\ UNCHANGED << variant, status, isMuted, errorMsg, sessionRef,
                        micStreamRef, currentTime, conns, sent, nBlocks >>

\* decodeAudioData resolves for the suspended onmessage d: the rest of the
\* handler, its interrupted check included
DecodeDone(d) ==
    LET h == StartSource(d, nextStartTimeRef, currentTime)
        played1 == Append(played, h)
        next1 == nextStartTimeRef + d.dur
        src1 == sourcesRef \cup {d.id}
        rest == decodes \ {d}
        r == StopAllAudio(src1, played1, next1, currentTime)
    IN  /\ d \in decodes
        /\ IF d.intr
           THEN /\ sourcesRef' = r.sources
                /\ nextStartTimeRef' = r.next
                /\ played' = r.played
                /\ decodes' = {[e EXCEPT !.flushed = TRUE] : e \in rest}
           ELSE /\ sourcesRef' = src1
                /\ nextStartTimeRef' = next1
                /\ played' = played1
                /\ decodes' = rest
        /\ UNCHANGED << variant, status, isMuted, errorMsg, sessionRef,
                        micStreamRef, currentTime, conns, sent, nBlocks,
                        nChunks, textVars >>

\* decodeAudioData rejects for the suspended onmessage d: the handler ends
\* there
DecodeFail(d) ==
    /\ d \in decodes
    /\ decodes' = decodes \ {d}
    /\ UNCHANGED << variant, status, isMuted, errorMsg, sessionRef,
                    micStreamRef, currentTime, conns, sent, nBlocks, nChunks,
                    nextStartTimeRef, sourcesRef, played, textVars >>

\* an onended callback that leaves the source in sourcesRef
OnEndedNoDelete(i) ==
    /\ i \in DOMAIN played
    /\ \/ played[i].st = "stopped"
       \/ played[i].st = "playing" /\ played[i].end <= currentTime
    /\ played' = [played EXCEPT ![i].st = "done"]
    /\ UNCHANGED << variant, status, isMuted, errorMsg, sessionRef,
                    micStreamRef, currentTime, conns, sent, nBlocks, nChunks,
                    nextStartTimeRef, sourcesRef, decodes, textVars >>

\* source.onended of the i-th started source: it has played to its end,
\* or it was stopped
OnEnded(i) ==
    /\ i \in DOMAIN played
    /\ \/ played[i].st = "stopped"
       \/ played[i].st = "playing" /\ played[i].end <= currentTime
    /\ played' = [played EXCEPT ![i].st = "done"]
    /\ sourcesRef' = sourcesRef \ {played[i].id}
    /\ UNCHANGED << variant, status, isMuted, errorMsg, sessionRef,
                    micStreamRef, currentTime, conns, sent, nBlocks, nChunks,
                    nextStartTimeRef, decodes, textVars >>

\* the output clock advances; both AudioContexts exist from the first
\* connect() on
Tick(maxTime) ==
    /\ conns[1].pc # "unused"
    /\ currentTime < maxTime
    /\ currentTime' = currentTime + 1
    /\ UNCHANGED << variant, status, isMuted, errorMsg, sessionRef,
                    micStreamRef, conns, sent, nBlocks, textVars, audioVars >>

(***************************************************************************)
(* Inputs                                                                  *)
(***************************************************************************)
Durations == {1, 2}

\* no delta, "a", "b" and " "
Deltas == {<< >>, <<97>>, <<98>>, <<32>>}

MsgsAudio ==
    {[NoMsg EXCEPT !.audio = a, !.interrupted = i] :
        a \in {0} \cup Durations, i \in BOOLEAN} \ {NoMsg}

\* a chunk, or an interruption
MsgsFlush ==
    {[NoMsg EXCEPT !.audio = 1], [NoMsg EXCEPT !.interrupted = TRUE]}

MsgsText ==
    {[NoMsg EXCEPT !.inT = x, !.outT = y, !.turnComplete = t] :
        x \in Deltas, y \in {<< >>, <<97>>}, t \in BOOLEAN} \ {NoMsg}

MsgsHist ==
    {[NoMsg EXCEPT !.inT = x, !.turnComplete = TRUE] : x \in {<<97>>, <<32>>}}

\* transcript deltas in Latin ("a") and Ethiopic (U+1200) script
MsgsLang ==
    {[NoMsg EXCEPT !.inT = x, !.outT = y, !.turnComplete = t] :
        x \in {<< >>, <<97>>, <<4608>>}, y \in {<< >>, <<4608>>},
        t \in BOOLEAN} \ {NoMsg}

\* a delta "a" without turnComplete, and a bare turnComplete
MsgsCross ==
    {[NoMsg EXCEPT !.inT = <<97>>], [NoMsg EXCEPT !.turnComplete = TRUE]}

Msgs ==
    {[NoMsg EXCEPT !.inT = <<97>>, !.turnComplete = TRUE],
     [NoMsg EXCEPT !.audio = 1],
     [NoMsg EXCEPT !.interrupted = TRUE]}

(***************************************************************************)
(* Specifications                                                          *)
(***************************************************************************)
\* the whole session: lifecycle, capture, and one message of each kind
Next ==
    \/ \E c \in ConnIds : Connect(c)
    \/ \E c \in ConnIds : GetUserMediaOk(c)
    \/ \E c \in ConnIds : GetUserMediaFail(c)
    \/ \E c \in ConnIds : OnOpen(c)
    \/ \E c \in ConnIds : OnClose(c)
    \/ \E c \in ConnIds : OnError(c)
    \/ \E c \in ConnIds, n \in ConnIds : RetryTimer(c, n)
    \/ Disconnect
    \/ ToggleMute
    \/ ClearHistory
    \/ \E c \in ConnIds : AudioProcess(c)
    \/ \E c \in ConnIds, m \in Msgs : OnMessage(c, m, MaxTurns, 1)
    \/ \E d \in decodes : DecodeDone(d)
    \/ \E d \in decodes : DecodeFail(d)
    \/ \E i \in 1..MaxChunks : OnEnded(i)
    \/ Tick(1)

Spec == Init /\ [][Next]_vars

\* lifecycle, mute button and microphone capture, without inbound messages
NextCapture ==
    \/ \E c \in ConnIds : Connect(c)
    \/ \E c \in ConnIds : GetUserMediaOk(c)
    \/ \E c \in ConnIds : GetUserMediaFail(c)
    \/ \E c \in ConnIds : OnOpen(c)
    \/ \E c \in ConnIds : OnClose(c)
    \/ Disconnect
    \/ ToggleMute
    \/ \E c \in ConnIds : AudioProcess(c)

SpecCapture == Init /\ [][NextCapture]_vars

\* the Playback Scheduler of one session under every audio message
NextAudio ==
    \/ Connect(1)
    \/ GetUserMediaOk(1)
    \/ OnOpen(1)
    \/ OnClose(1)
    \/ Disconnect
    \/ \E m \in MsgsAudio : OnMessage(1, m, MaxEntries, MaxChunks)
    \/ \E d \in decodes : DecodeDone(d)
    \/ \E d \in decodes : DecodeFail(d)
    \/ \E i \in 1..MaxChunks : OnEnded(i)
    \/ Tick(MaxTime)

SpecAudio == Init /\ [][NextAudio]_vars

\* the Playback Scheduler of one session under chunks that decode, with
\* stopAllAudio() called by an interrupted message and by onclose
NextFlush ==
    \/ Connect(1)
    \/ GetUserMediaOk(1)
    \/ OnOpen(1)
    \/ OnClose(1)
    \/ \E m \in MsgsFlush : OnMessage(1, m, MaxEntries, MaxChunks)
    \/ \E d \in decodes : DecodeDone(d)
    \/ \E i \in 1..MaxChunks : OnEnded(i)
    \/ Tick(MaxTime)

SpecFlush == Init /\ [][NextFlush]_vars

\* the Transcript Assembler of one session under every transcript message
NextText ==
    \/ Connect(1)
    \/ GetUserMediaOk(1)
    \/ OnOpen(1)
    \/ \E m \in MsgsText : OnMessage(1, m, MaxEntries, MaxChunks)

SpecText == Init /\ [][NextText]_vars

\* the History Store of one session filled beyond its capacity
NextHist ==
    \/ Connect(1)
    \/ GetUserMediaOk(1)
    \/ OnOpen(1)
    \/ ClearHistory
    \/ \E m \in MsgsHist : OnMessage(1, m, MaxHistEntries, MaxChunks)

SpecHist == Init /\ [][NextHist]_vars

\* the language labels of the entries of one session
NextLang ==
    \/ Connect(1)
    \/ GetUserMediaOk(1)
    \/ OnOpen(1)
    \/ \E m \in MsgsLang : OnMessage(1, m, MaxEntries, MaxChunks)

SpecLang == Init /\ [][NextLang]_vars

\* successive sessions with transcript deltas and turn boundaries
NextSessions ==
    \/ \E c \in ConnIds : Connect(c)
    \/ \E c \in ConnIds : GetUserMediaOk(c)
    \/ \E c \in ConnIds : OnOpen(c)
    \/ \E c \in ConnIds : OnClose(c)
    \/ \E c \in ConnIds : OnError(c)
    \/ Disconnect
    \/ \E c \in ConnIds, m \in MsgsCross :
          OnMessage(c, m, MaxEntries, MaxChunks)

SpecSessions == Init /\ [][NextSessions]_vars

\* the connection lifecycle under microphone and stream errors, without
\* messages
NextRetry ==
    \/ \E c \in ConnIds : Connect(c)
    \/ \E c \in ConnIds : GetUserMediaOk(c)
    \/ \E c \in ConnIds : GetUserMediaFail(c)
    \/ \E c \in ConnIds : OnOpen(c)
    \/ \E c \in ConnIds : OnClose(c)
    \/ \E c \in ConnIds : OnError(c)
    \/ \E c \in ConnIds, n \in ConnIds : RetryTimer(c, n)
    \/ Disconnect

SpecRetry == Init /\ [][NextRetry]_vars

\* one session with chunks playing, torn down from every status
NextTeardown ==
    \/ Connect(1)
    \/ GetUserMediaOk(1)
    \/ GetUserMediaFail(1)
    \/ OnOpen(1)
    \/ OnClose(1)
    \/ OnError(1)
    \/ Disconnect
    \/ \E m \in MsgsFlush : OnMessage(1, m, MaxEntries, MaxChunks)
    \/ \E d \in decodes : DecodeDone(d)
    \/ Tick(MaxTime)

SpecTeardown == Init /\ [][NextTeardown]_vars

(***************************************************************************)
(* Claims                                                                  *)
(***************************************************************************)
\* the steps in which stopAllAudio() runs to its end
FlushStep ==
    \/ Disconnect
    \/ \E c \in ConnIds : OnClose(c)
    \/ \E c \in ConnIds : GetUserMediaFail(c)
    \/ \E c \in ConnIds, m \in MsgsFlush :
          m.interrupted /\ OnMessage(c, m, MaxEntries, MaxChunks)
    \/ \E d \in decodes : d.intr /\ DecodeDone(d)

\* the handle played, or will play, from its start for its whole duration
PlaysOut(h) == h.end = h.start + h.dur

\* C1: each started chunk begins playing no earlier than the chunk started
\* before it stops playing, and exactly when that chunk ends if it was
\* started while that chunk had not yet ended.
C1_NoOverlapNoGap ==
    \A i \in 1..(Len(played) - 1) :
        /\ played[i].end > played[i].start =>
              played[i + 1].start >= played[i].end
        /\ PlaysOut(played[i]) /\ played[i + 1].at < played[i].end =>
              played[i + 1].start = played[i].end

\* C2: of two chunks that both play out, the one whose message arrived
\* first starts playing first.
C2_ArrivalOrder ==
    \A i \in DOMAIN played, j \in DOMAIN played :
        played[i].id < played[j].id /\ PlaysOut(played[i]) /\ PlaysOut(played[j])
            => played[i].start < played[j].start

\* C3: when stopAllAudio() has run, whether from an interrupted message,
\* disconnect() or onclose, sourcesRef is empty and nextStartTimeRef is 0,
\* whatever the handles in the set were doing.
C3_FlushEmpties ==
    [][FlushStep => sourcesRef' = {} /\ nextStartTimeRef' = 0]_vars

\* a flush has run over a set holding a source that had already played to
\* its end and a source that was still playing
C3_Witness ==
    /\ sourcesRef = {}
    /\ nextStartTimeRef = 0
    /\ \E i \in DOMAIN played :
          /\ played[i].st = "playing"
          /\ played[i].end <= currentTime
          /\ \E j \in DOMAIN played : played[j].st = "stopped"

\* C4: no chunk whose decode was pending when a flush ran is ever started.
C4_FlushedDecodeNotStarted ==
    \A i \in DOMAIN played : ~played[i].flushed

\* C5: no frame is sent for a block captured while isMuted is true.
C5_NoFrameWhileMuted ==
    \A i \in DOMAIN sent : ~sent[i].muted

\* C6: after a turnComplete message both transcript buffers are empty.
C6_BuffersEmptyAfterTurn ==
    [][(\E c \in ConnIds, m \in MsgsText :
            m.turnComplete /\ OnMessage(c, m, MaxEntries, MaxChunks))
        => currentInputTransRef' = << >> /\ currentOutputTransRef' = << >>]_vars

\* sender and text of the entries of hist created from identity `first` on
CreatedSince(hist, first) ==
    LET IsNew(e) == e.id >= first
        new == SelectSeq(hist, IsNew)
    IN  [i \in 1..Len(new) |-> [sender |-> new[i].sender, text |-> new[i].text]]

\* the entries a turn boundary owes for the trimmed texts tin and tout
Owed(tin, tout) ==
    (IF tin # << >> THEN << [sender |-> "user", text |-> tin] >> ELSE << >>)
    \o (IF tout # << >> THEN << [sender |-> "model", text |-> tout] >> ELSE << >>)

\* C7: a turnComplete message appends, for each direction whose deltas since
\* the previous turnComplete (its own included) trim to a non-empty text,
\* exactly one entry holding that text, and nothing else.
C7_OneEntryPerDirection ==
    [][\A c \in ConnIds, m \in MsgsText :
            m.turnComplete /\ OnMessage(c, m, MaxEntries, MaxChunks)
            => CreatedSince(transcriptions', nextId)
                 = Owed(Trim(deltaLogIn \o m.inT), Trim(deltaLogOut \o m.outT))]_vars

\* "a" then "b" then turnComplete has left one entry "ab"
C7_Witness ==
    \E i \in DOMAIN transcriptions :
        /\ transcriptions[i].text = <<97, 98>>
        /\ transcriptions[i].sender = "user"
        /\ nextId = 2

\* C8: a direction whose buffer trims to nothing at a turnComplete gets no
\* entry, and every entry of the history has a non-empty text that neither
\* begins nor ends with white space.
C8_NoBlankEntries ==
    /\ [](\A i \in DOMAIN transcriptions :
            LET t == transcriptions[i].text
            IN  /\ t # << >>
                /\ ~IsWhiteSpace(t[1])
                /\ ~IsWhiteSpace(t[Len(t)]))
    /\ [][\A c \in ConnIds, m \in MsgsText :
            m.turnComplete /\ OnMessage(c, m, MaxEntries, MaxChunks)
            => LET new == CreatedSince(transcriptions', nextId)
               IN  /\ Trim(currentInputTransRef \o m.inT) = << >>
                        => \A k \in DOMAIN new : new[k].sender # "user"
                   /\ Trim(currentOutputTransRef \o m.outT) = << >>
                        => \A k \in DOMAIN new : new[k].sender # "model"]_vars

\* a turnComplete has passed over a user buffer holding only a space and
\* created nothing
C8_Witness ==
    /\ currentInputTransRef = <<32>>
    /\ deltaLogIn = << >>
    /\ nextId = 1
    /\ transcriptions = << >>

\* N of the History Store: the 49 entries kept and the one appended
HistoryCap == SliceKeep + 1

\* C9: the history never holds more than 50 entries.
C9_HistoryBounded == Len(transcriptions) <= HistoryCap

\* C10: an append to a history of 50 entries drops the first entry and
\* puts the new one last; an append to a shorter history drops nothing.
C10_EvictOldest ==
    [][\A c \in ConnIds, m \in MsgsHist :
            OnMessage(c, m, MaxHistEntries, MaxChunks) /\ nextId' = nextId + 1
            => LET new == transcriptions'[Len(transcriptions')]
               IN  /\ new.id = nextId
                   /\ transcriptions' =
                        IF Len(transcriptions) >= HistoryCap
                        THEN Append(Tail(transcriptions), new)
                        ELSE Append(transcriptions, new)]_vars

\* the largest number of consecutive automatic attempts that fits in
\* ConnIds after the attempt started by the main button
RetryCap == MaxConns - 1

\* C11: automatic reconnection is bounded: when errors keep recurring, the
\* error of the last automatic attempt a capped policy allows schedules no
\* further attempt (whatever the cap is, up to RetryCap)
C11_RetriesCapped ==
    \A c \in ConnIds : conns[c].retry >= RetryCap => ~conns[c].timer

\* C12: a remote error signal received while the session is CONNECTING or
\* CONNECTED leaves the status ERROR and an error message recorded
C12_ErrorSetsError ==
    [][\A c \in ConnIds :
          OnError(c) /\ status \in {CONNECTING, CONNECTED}
          => status' = ERROR /\ errorMsg' # "null"]_vars

\* C13: the callback of the 3 s timer starts a connection attempt only if
\* the status is not CONNECTED at the moment it runs
C13_RetryOnlyIfNotConnected ==
    [][\A c \in ConnIds, n \in ConnIds :
          RetryTimer(c, n) /\ conns'[n].pc = "mic" => status # CONNECTED]_vars

\* disconnect() called in the current state
DisconnectOnce ==
    Teardown(conns, sessionRef, micStreamRef, sourcesRef, played,
             nextStartTimeRef, decodes, currentTime)

\* disconnect() called again on what DisconnectOnce leaves
DisconnectTwice ==
    Teardown(DisconnectOnce.conns, DisconnectOnce.sessionRef,
             DisconnectOnce.micStreamRef, DisconnectOnce.sourcesRef,
             DisconnectOnce.played, DisconnectOnce.nextStartTimeRef,
             DisconnectOnce.decodes, currentTime)

Silent(h, now) == h.st # "playing" \/ h.end <= now

\* C15: when the session is CONNECTED and onclose runs or disconnect() is
\* called, the step leaves the status DISCONNECTED, the held session closed
\* and sessionRef empty, the tracks of the held microphone stream stopped
\* and micStreamRef empty, and the Playback Scheduler flushed (no active
\* source, every source that was active silent, cursor 0)
C15_ConnectedTeardown ==
    [][status = CONNECTED /\ (Disconnect \/ \E c \in ConnIds : OnClose(c))
       => /\ status' = DISCONNECTED
          /\ sessionRef # 0 => conns'[sessionRef].ws \in {"closing", "closed"}
          /\ sessionRef' = 0
          /\ micStreamRef # 0 => conns'[micStreamRef].mic = "stopped"
          /\ micStreamRef' = 0
          /\ sourcesRef' = {} /\ nextStartTimeRef' = 0
          /\ \A i \in DOMAIN played :
                played[i].id \in sourcesRef => Silent(played'[i], currentTime)]_vars

\* C15: a CONNECTED session with a chunk playing was torn down, without
\* any error
C15_Witness ==
    /\ status = DISCONNECTED /\ errorMsg = "null"
    /\ sessionRef = 0 /\ micStreamRef = 0
    /\ conns[1].ws \in {"closing", "closed"} /\ conns[1].mic = "stopped"
    /\ sourcesRef = {} /\ nextStartTimeRef = 0
    /\ \E i \in DOMAIN played : played[i].st = "stopped"

\* C16: an interrupted message handled while CONNECTED with chunks
\* scheduled stops every active chunk, empties sourcesRef and resets the
\* cursor to 0, and leaves the status, the session, the microphone, both
\* transcript buffers and the history as they were
C16_InterruptedOnlyFlushes ==
    [][\A c \in ConnIds, m \in MsgsFlush :
          /\ m.interrupted /\ status = CONNECTED /\ sourcesRef # {}
          /\ OnMessage(c, m, MaxEntries, MaxChunks)
          => /\ sourcesRef' = {} /\ nextStartTimeRef' = 0
             /\ \A i \in DOMAIN played :
                   played[i].id \in sourcesRef => Silent(played'[i], currentTime)
             /\ UNCHANGED << status, sessionRef, micStreamRef, conns,
                             currentInputTransRef, currentOutputTransRef,
                             transcriptions >>]_vars

\* C16: two chunks were scheduled and both were stopped by an interrupted
\* message, the session still CONNECTED
C16_Witness ==
    /\ status = CONNECTED /\ sessionRef # 0 /\ micStreamRef # 0
    /\ sourcesRef = {} /\ nextStartTimeRef = 0
    /\ Len(played) = 2
    /\ \A i \in DOMAIN played : played[i].st = "stopped"

\* C17: when getUserMedia rejects, the catch block of connect() leaves the
\* status DISCONNECTED, an error message set, sessionRef and micStreamRef
\* empty, and the attempt itself without a stream and without a microphone
C17_MicFailureDisconnects ==
    [][\A c \in ConnIds :
          GetUserMediaFail(c)
          => /\ status' = DISCONNECTED
             /\ errorMsg' # "null"
             /\ sessionRef' = 0 /\ micStreamRef' = 0
             /\ conns'[c].ws = "none" /\ conns'[c].mic = "none"]_vars

\* C17: a connection attempt ended in the catch block, having opened no
\* stream and acquired no microphone
C17_Witness ==
    /\ status = DISCONNECTED
    /\ errorMsg = "Access denied or service unavailable."
    /\ \E c \in ConnIds :
          conns[c].pc = "done" /\ conns[c].ws = "none" /\ conns[c].mic = "none"

\* C18: when decodeAudioData rejects for a chunk, the chunk is never
\* started and never in sourcesRef, the started sources, sourcesRef and the
\* status are untouched, and the cursor is what it was before the message
\* was handled (compared when this is the only chunk received and no flush
\* ran since, so that nothing else moved the cursor)
C18_DecodeFailureNoEffect ==
    [][\A d \in decodes :
          DecodeFail(d)
          => /\ played' = played /\ sourcesRef' = sourcesRef
             /\ d.id \notin sourcesRef'
             /\ status' = status
             /\ nChunks = 1 /\ ~d.flushed => nextStartTimeRef' = d.cursor0]_vars

\* C19: the label of every entry of the history is "Amharic" exactly when
\* its text has strictly more characters in U+1200..U+137F than Latin
\* letters, and "Afaan Oromoo" otherwise (equal counts included)
C19_LabelByMajority ==
    \A i \in DOMAIN transcriptions :
        transcriptions[i].language =
            IF CountMatches(transcriptions[i].text, EthiopicChars)
                 > CountMatches(transcriptions[i].text, LatinChars)
            THEN "Amharic" ELSE "Afaan Oromoo"

\* C20: while the status is CONNECTED, the mute flag false and the session
\* of the capturing connection held and open, each captured block adds
\* exactly one frame, for that block, at the end of the frames sent
C20_OneFramePerBlock ==
    [][\A c \in ConnIds :
          /\ status = CONNECTED /\ ~isMuted
          /\ sessionRef = c /\ conns[c].ws = "open"
          /\ AudioProcess(c)
          => /\ Len(sent') = Len(sent) + 1
             /\ SubSeq(sent', 1, Len(sent)) = sent
             /\ sent'[Len(sent')].block = nBlocks + 1
             /\ sent'[Len(sent')].conn = c]_vars

\* C21: whenever an open signal makes the session CONNECTED, the error
\* message is empty
C21_ErrorClearedOnOpen ==
    [][\A c \in ConnIds : OnOpen(c) => errorMsg' = "null"]_vars

\* C22: the status becomes CONNECTED only by an open signal received while
\* the status is CONNECTING; an open signal received in another status does
\* not make it CONNECTED
C22_ConnectedOnlyFromConnecting ==
    [][status # CONNECTED /\ status' = CONNECTED
       => status = CONNECTING /\ \E c \in ConnIds : OnOpen(c)]_vars

\* C23: whenever the status is CONNECTED, the session of the capturing
\* connection is held and open and the mute flag is false, a captured block
\* is forwarded to the stream, also when the session was opened with the
\* mute flag true
C23_ForwardedWhileUnmuted ==
    [][\A c \in ConnIds :
          /\ status = CONNECTED /\ sessionRef = c /\ conns[c].ws = "open"
          /\ ~isMuted
          /\ AudioProcess(c)
          => \E i \in DOMAIN sent' : sent'[i].block = nBlocks + 1]_vars

\* C24: a message that carries an interruption signal ends with the flush
\* (sourcesRef empty, cursor 0) whatever else it carries, also when the
\* decode of its audio chunk fails
C24_InterruptedAlwaysFlushes ==
    [][\A d \in decodes :
          d.intr /\ DecodeFail(d) => sourcesRef' = {} /\ nextStartTimeRef' = 0]_vars

\* C25: the start time given to source.start() is never earlier than the
\* output clock at the moment of the call
C25_StartNotInThePast ==
    \A i \in DOMAIN played : played[i].when >= played[i].at

\* the identities of the sources started so far
StartedIds == {played[i].id : i \in DOMAIN played}

\* C26: sourcesRef holds exactly the started sources that have neither
\* ended (onended has not run) nor been flushed: every source in it was
\* started and is playing, every source still sounding is in it, a source
\* is started once, a source enters only when it is started and never
\* again after it left, and onended of a source that was flushed changes
\* neither sourcesRef nor the cursor
C26_ActiveSetExact ==
    /\ [](/\ \A id \in sourcesRef :
                \E i \in DOMAIN played :
                    played[i].id = id /\ played[i].st = "playing"
          /\ \A i \in DOMAIN played :
                played[i].st = "playing" /\ played[i].end > currentTime
                    => played[i].id \in sourcesRef
          /\ \A i \in DOMAIN played, j \in DOMAIN played :
                played[i].id = played[j].id => i = j)
    /\ [][/\ sourcesRef' \ sourcesRef \subseteq StartedIds' \ StartedIds
          /\ \A i \in DOMAIN played :
                OnEnded(i) /\ played[i].id \notin sourcesRef
                    => UNCHANGED << sourcesRef, nextStartTimeRef >>]_vars

\* C26: one source has played to its end and left sourcesRef by its
\* onended, another was flushed and its onended ran afterwards
C26_Witness ==
    /\ Len(played) = 2
    /\ sourcesRef = {}
    /\ \E i \in DOMAIN played, j \in DOMAIN played :
          /\ played[i].st = "done" /\ PlaysOut(played[i])
          /\ played[j].st = "done" /\ ~PlaysOut(played[j])

\* the turn boundary of a reference assembler that clears both buffers
\* whether or not an entry is emitted
RefFinalizeTurn(bufIn, bufOut, hist, id) ==
    LET input == Trim(bufIn)
        output == Trim(bufOut)
        h1 == IF input # << >>
              THEN AppendEntry(hist, NewEntry(id, "user", input)) ELSE hist
        id1 == IF input # << >> THEN id + 1 ELSE id
        h2 == IF output # << >>
              THEN AppendEntry(h1, NewEntry(id1, "model", output)) ELSE h1
    IN  [bufIn |-> << >>, bufOut |-> << >>, hist |-> h2]

\* C27: the history the code produces is the one a reference assembler
\* produces that clears both buffers at every turnComplete.  The buffers of
\* the reference are the deltas received since the last turnComplete; the
\* buffers of the code differ from them by white space only, and at every
\* turnComplete the code leaves the history the reference leaves.
C27_SameAsUnconditionalClear ==
    /\ [](/\ Trim(currentInputTransRef) = Trim(deltaLogIn)
          /\ Trim(currentOutputTransRef) = Trim(deltaLogOut))
    /\ [][\A c \in ConnIds, m \in MsgsText :
             m.turnComplete /\ OnMessage(c, m, MaxEntries, MaxChunks)
             => transcriptions' =
                  RefFinalizeTurn(deltaLogIn \o m.inT, deltaLogOut \o m.outT,
                                  transcriptions, nextId).hist]_vars

\* C27: the buffer of the code holds white space the reference has
\* cleared, in front of a delta of the next turn
C27_Witness ==
    /\ currentInputTransRef = <<32, 97>>
    /\ deltaLogIn = <<97>>

\* C28: at most one stream is open or being opened at any time
C28_OneStreamAtATime ==
    Cardinality({c \in ConnIds : conns[c].ws \in {"opening", "open"}}) <= 1

\* C29: once the session is DISCONNECTED, the callback of a retry timer
\* left pending by an earlier error starts no connection: the status stays
\* DISCONNECTED until the main button calls connect()
C29_NoRetryAfterTeardown ==
    [][\A c \in ConnIds, n \in ConnIds :
          status = DISCONNECTED /\ RetryTimer(c, n)
          => status' = DISCONNECTED /\ conns'[n].pc = "unused"]_vars

\* C30: both transcript buffers are empty when a session opens after every
\* earlier session has ended, so no delta of an ended session is in the
\* text of an entry of a later one
C30_BuffersEmptyAtOpen ==
    [][\A c \in ConnIds :
          /\ \A b \in ConnIds \ {c} : conns[b].ws \notin {"opening", "open"}
          /\ OnOpen(c)
          => currentInputTransRef' = << >> /\ currentOutputTransRef' = << >>]_vars

\* C31: in every state in which the status is DISCONNECTED, sessionRef and
\* micStreamRef are empty, sourcesRef is empty and the cursor is 0, also
\* after a decode completes or a message arrives after the teardown
C31_DisconnectedIsClean ==
    status = DISCONNECTED
        => /\ sessionRef = 0 /\ micStreamRef = 0
           /\ sourcesRef = {} /\ nextStartTimeRef = 0

\* C32: every frame is sent on a stream that is open: none on a stream
\* that disconnect() or a remote close has released, whether or not a later
\* connect() has installed a new session
C32_NoFrameOnReleasedStream ==
    \A i \in DOMAIN sent : sent[i].ws = "open"

=============================================================================
